---------------------------- MODULE Spec2Model ----------------------------
(***************************************************************************)
(* The data dispatcher of yggdrasil: DataProcessor.HandleDataRecvSignal    *)
(* and DataProcessor.HandleDataReturnSignal, the two goroutines that take  *)
(* MessageIDs from a channel, look the message up in the go-memdb store,   *)
(* fetch or deliver detached content over HTTP and emit the "data-process" *)
(* and "data-consume" signals.                                             *)
(*                                                                         *)
(* Byte strings (Content, URLs, header values) are sequences of one-       *)
(* character strings, so that decoding and trimming are computed.          *)
(***************************************************************************)
EXTENDS Integers, Sequences, FiniteSets, TLC

VARIABLES
    data,       \* table "data": MessageID -> Data record (committed state)
    workers,    \* table "worker": Handler -> Worker record
    chanIn,     \* the channel c each handler ranges over (its buffer)
    closed,     \* whether that channel has been closed
    subs,       \* p.sig: signal name -> the channels handed out by Connect
    pc,         \* where each handler goroutine stands
    loc,        \* the locals of the closure a handler is executing
    panicked,   \* an unrecovered panic has ended the process
    published,  \* history: values sent on each handler's channel, in order
    taken,      \* history: values each handler took from its channel, in order
    step,       \* history: what the closure run for the value last taken did
    emitLog,    \* history: values each handler passed to p.sig.emit, in order
    calls,      \* history: requests each handler has handed to the HTTP client
    replaced    \* history: MessageID -> commits that changed the stored Content

vars == <<data, workers, chanIn, closed, subs, pc, loc, panicked,
          published, taken, step, emitLog, calls, replaced>>

----------------------------------------------------------------------------
(* Bounds of the model *)

\* values an outside publisher sends in one run, over both channels
MaxPublish == 2
\* buffer size of the channel a handler is started with
InCap == 2
\* channels Connect hands out per signal name
MaxSubs == 1

----------------------------------------------------------------------------
(* Program constants *)

SignalDataProcess == "data-process"
SignalDataConsume == "data-consume"
Signals == {SignalDataProcess, SignalDataConsume}

\* buffer size Connect asks for
ConnectBuf == 1

\* first status code the handlers treat as an API error
ErrorStatus == 400

Handlers == {"recv", "ret"}

Q == "\""
SP == " "

----------------------------------------------------------------------------
(* Byte-string helpers *)

RECURSIVE TrimLeft(_)
TrimLeft(s) == IF s # <<>> /\ Head(s) = SP THEN TrimLeft(Tail(s)) ELSE s

RECURSIVE TrimRight(_)
TrimRight(s) ==
    IF s # <<>> /\ s[Len(s)] = SP THEN TrimRight(SubSeq(s, 1, Len(s) - 1)) ELSE s

\* strings.TrimSpace
TrimSpace(s) == TrimRight(TrimLeft(s))

\* json.Unmarshal(content, &URL) for a string target.  The literal null
\* leaves the target at its zero value and is no error; a string literal
\* yields its characters (the alphabet has no escapes); anything else is an
\* error.  White space around the value is skipped.
JSONNull == <<"n", "u", "l", "l">>
Unmarshal(content) ==
    LET c == TrimSpace(content) IN
    IF c = JSONNull THEN [ok |-> TRUE, val |-> <<>>]
    ELSE IF /\ Len(c) >= 2
            /\ c[1] = Q
            /\ c[Len(c)] = Q
            /\ \A i \in 2..(Len(c) - 1) : c[i] # Q
         THEN [ok |-> TRUE, val |-> SubSeq(c, 2, Len(c) - 1)]
         ELSE [ok |-> FALSE, val |-> <<>>]

\* http.NewRequest fails when the URL does not parse; url.Parse rejects a
\* URL that starts with a colon ("missing protocol scheme").
NewRequestFails(url) == url # <<>> /\ url[1] = ":"

\* textproto.CanonicalMIMEHeaderKey over the letters x, X and the hyphen:
\* upper case at the start and after a hyphen, lower case elsewhere.
Upper(ch) == IF ch = "x" THEN "X" ELSE ch
Lower(ch) == IF ch = "X" THEN "x" ELSE ch
CanonicalKey(k) ==
    [i \in 1..Len(k) |->
        IF i = 1 \/ k[i - 1] = "-" THEN Upper(k[i]) ELSE Lower(k[i])]

\* req.Header after the loop over dataMessage.Metadata: under each canonical
\* key the trimmed values added for it (map iteration order is not modelled,
\* so the values under one key form a set).
BuildHeader(metadata) ==
    [ck \in {CanonicalKey(k) : k \in DOMAIN metadata} |->
        {TrimSpace(metadata[k]) : k \in {j \in DOMAIN metadata : CanonicalKey(j) = ck}}]

----------------------------------------------------------------------------
(* The store *)

NoID == ""
NoHeader == [k \in {} |-> {}]

Msg(id, directive, content, metadata, responseTo) ==
    [MessageID |-> id, Directive |-> directive, Content |-> content,
     Metadata |-> metadata, ResponseTo |-> responseTo]

\* the Data records the outside collaborators have inserted
InitData ==
    LET recs == {
          Msg("m1", <<"e">>, <<"h", "i">>, NoHeader, NoID),
          Msg("m2", <<"f">>, <<Q, "u", Q>>, [k \in {<<"a">>} |-> <<"b">>], NoID),
          Msg("m3", <<"f">>, <<"h", "i">>, NoHeader, NoID),
          Msg("m4", <<"z">>, <<"h", "i">>, NoHeader, NoID),
          Msg("m6", <<"f">>, JSONNull, NoHeader, NoID),
          Msg("r1", <<"f">>, <<"o", "k">>, NoHeader, "m1"),
          Msg("r2", <<"v">>, <<"o", "k">>,
              [k \in {<<"x", "-", "x">>} |-> <<SP, "t", SP>>], "m2"),
          Msg("r3", <<"v">>, <<"o", "k">>, NoHeader, "m5"),
          Msg("r4", <<"v">>, <<"o", "k">>, NoHeader, "m4"),
          Msg("r5", <<":">>, <<"o", "k">>, NoHeader, "m3")}
    IN [id \in {r.MessageID : r \in recs} |->
           CHOOSE r \in recs : r.MessageID = id]

\* the registered workers
InitWorkers ==
    [h \in {<<"e">>, <<"f">>} |->
        [Handler |-> h, detachedContent |-> (h = <<"f">>)]]

\* MessageIDs an outside publisher sends on the two channels ("m5" names no
\* record)
RecvInputs == {"m1", "m2", "m3", "m4", "m5", "m6"}
RetInputs == {"r1", "r2", "r3", "r4", "r5", "m5"}
Inputs(h) == IF h = "recv" THEN RecvInputs ELSE RetInputs

\* the MessageIDs among them whose processing can end in an emit
EmittingInputs(h) == IF h = "recv" THEN {"m1", "m2"} ELSE {"r1", "r2"}

\* tx.First(table, index, key): the single record under key, or nil
NoRec == [MessageID |-> NoID]
First(table, key) == IF key \in DOMAIN table THEN table[key] ELSE NoRec
IsNil(obj) == obj = NoRec

\* a variant whose commit leaves the written record alone in the table
InsertAlone(table, rec) == [id \in {rec.MessageID} |-> rec]

\* tx.Insert(tableNameData, rec) followed by tx.Commit(): the record replaces
\* the one stored under the same MessageID
Insert(table, rec) ==
    [id \in DOMAIN table \cup {rec.MessageID} |->
        IF id = rec.MessageID THEN rec ELSE table[id]]

----------------------------------------------------------------------------
(* HTTP *)

NoReq == [method |-> "none"]
Request(method, url, body, header) ==
    [method |-> method, url |-> url, body |-> body, header |-> header]

StatusCodes == {200, 399, 400}
Bodies == {<<"p">>, <<"p", SP>>, <<Q, "w", Q>>}
TransportError == [err |-> TRUE, code |-> 0, body |-> <<>>]
NoResp == [err |-> FALSE, code |-> 0, body |-> <<>>]

\* what p.client.Get / p.client.Do together with ioutil.ReadAll can return:
\* an error, or a status code and the body read.  A request for the empty
\* URL (no scheme) never leaves the client and comes back as an error.
Responses(req) ==
    IF req.url = <<>> THEN {TransportError}
    ELSE {TransportError} \cup
         {[err |-> FALSE, code |-> c, body |-> b] : c \in StatusCodes, b \in Bodies}

\* a variant that lets status 400 pass
IsAPIErrorAbove(resp) == resp.code > ErrorStatus

\* the switch on resp.StatusCode
IsAPIError(resp) == resp.code >= ErrorStatus

----------------------------------------------------------------------------
(* History records *)

\* how the closure run for one value ended
Panics == {"absent", "bad_request"}
Exits == {"none", "running", "ok", "noworker", "store_error", "malformed",
          "transport", "api_error", "write_error"} \cup Panics

NewStep(id) ==
    [id |-> id,             \* the value taken from the channel
     exit |-> "running",
     lookups |-> 0,         \* lookups that returned a record
     detached |-> FALSE,    \* the worker found has detachedContent
     reqs |-> <<>>,         \* HTTP requests handed to the client
     resp |-> NoResp,       \* what the client returned
     emits |-> <<>>,        \* <<signal, value>> passed to p.sig.emit
     wrote |-> FALSE,       \* a write transaction committed
     before |-> NoRec,      \* the record read at the first lookup
     after |-> NoRec]       \* the record stored when the closure ended

Cur(h) == step[h]

Init ==
    /\ data = InitData
    /\ workers = InitWorkers
    /\ chanIn = [h \in Handlers |-> <<>>]
    /\ closed = [h \in Handlers |-> FALSE]
    /\ subs = [s \in Signals |-> <<>>]
    /\ pc = [h \in Handlers |-> "idle"]
    /\ loc = [h \in Handlers |-> [dataMessage |-> NoRec, req |-> NoReq,
                                    signal |-> "", value |-> NoID,
                                    exit |-> "", pending |-> {}]]
    /\ panicked = FALSE
    /\ published = [h \in Handlers |-> <<>>]
    /\ taken = [h \in Handlers |-> <<>>]
    /\ step = [h \in Handlers |-> [NewStep(NoID) EXCEPT !.exit = "none"]]
    /\ emitLog = [h \in Handlers |-> <<>>]
    /\ calls = [h \in Handlers |-> 0]
    /\ replaced = [id \in DOMAIN InitData |-> 0]


----------------------------------------------------------------------------
(* Channels *)

\* c <- v is possible while the buffer has room
CanSend(buf, cap) == Len(buf) < cap

\* a variant that hands out the newest buffered value first
ChanRecvNewest(buf) ==
    [val |-> buf[Len(buf)], rest |-> SubSeq(buf, 1, Len(buf) - 1)]

\* what `range c` / <-c does to a non-empty buffer: it yields the oldest
\* value and leaves the others
ChanRecv(buf) == [val |-> Head(buf), rest |-> Tail(buf)]

\* total number of values published so far
Published == Len(published["recv"]) + Len(published["ret"])

\* An outside component sends MessageID id on the channel handler h reads,
\* as long as fewer than max values were sent in all.
PublishUpTo(h, id, max) ==
    /\ ~panicked
    /\ ~closed[h]
    /\ Published < max
    /\ CanSend(chanIn[h], InCap)
    /\ chanIn' = [chanIn EXCEPT ![h] = Append(@, id)]
    /\ published' = [published EXCEPT ![h] = Append(@, id)]
    /\ UNCHANGED <<data, workers, closed, subs, pc, loc, panicked,
                   taken, step, emitLog, calls, replaced>>

Publish(h, id) == PublishUpTo(h, id, MaxPublish)

\* The owner of the channel closes it.
Close(h) ==
    /\ ~panicked
    /\ ~closed[h]
    /\ closed' = [closed EXCEPT ![h] = TRUE]
    /\ UNCHANGED <<data, workers, chanIn, subs, pc, loc, panicked,
                   published, taken, step, emitLog,
                   calls, replaced>>

\* `for e := range c` ends once c is closed and drained.
Exit(h) ==
    /\ ~panicked
    /\ pc[h] = "idle"
    /\ closed[h]
    /\ chanIn[h] = <<>>
    /\ pc' = [pc EXCEPT ![h] = "exited"]
    /\ UNCHANGED <<data, workers, chanIn, closed, subs, loc, panicked,
                   published, taken, step, emitLog,
                   calls, replaced>>

\* a variant that asks for a buffer of two
ConnectSizeTwo == ConnectBuf + 1

\* the buffer size Connect passes to p.sig.connect
ConnectSize == ConnectBuf

\* DataProcessor.Connect(name): a new channel of buffer size ConnectSize is
\* registered under name.
Connect(name) ==
    /\ ~panicked
    /\ Len(subs[name]) < MaxSubs
    /\ subs' = [subs EXCEPT ![name] = Append(@, <<>>)]
    /\ UNCHANGED <<data, workers, chanIn, closed, pc, loc, panicked,
                   published, taken, step, emitLog,
                   calls, replaced>>

\* A subscriber receives the oldest value of its channel.
SubTake(name, i) ==
    /\ ~panicked
    /\ i \in 1..Len(subs[name])
    /\ subs[name][i] # <<>>
    /\ subs' = [subs EXCEPT ![name][i] = ChanRecv(@).rest]
    /\ UNCHANGED <<data, workers, chanIn, closed, pc, loc, panicked,
                   published, taken, step, emitLog,
                   calls, replaced>>

----------------------------------------------------------------------------
(* Steps of a closure *)

SetStep(h, st) == [step EXCEPT ![h] = st]

\* the closure returns (or reaches its end) and the loop is back at `range c`
Return(h, st, exit) ==
    /\ step' = SetStep(h, [st EXCEPT !.exit = exit,
                                            !.after = First(data', st.id)])
    /\ pc' = [pc EXCEPT ![h] = "idle"]
    /\ UNCHANGED <<panicked, loc, emitLog, calls>>

\* a run-time panic inside the closure: nothing recovers it, so the goroutine
\* and with it the process end
Panic(h, st, exit) ==
    /\ step' = SetStep(h, [st EXCEPT !.exit = exit,
                                            !.after = First(data', st.id)])
    /\ pc' = [pc EXCEPT ![h] = "dead"]
    /\ panicked' = TRUE
    /\ UNCHANGED <<loc, emitLog, calls>>

\* the closure stops at a call that takes time (the HTTP client, the write
\* transaction), with its locals kept
Goto(h, st, label, dataMessage, req) ==
    /\ step' = SetStep(h, st)
    /\ pc' = [pc EXCEPT ![h] = label]
    /\ loc' = [loc EXCEPT ![h].dataMessage = dataMessage, ![h].req = req]
    /\ calls' = IF label = "http" THEN [calls EXCEPT ![h] = @ + 1] ELSE calls
    /\ UNCHANGED <<panicked, emitLog>>

\* p.sig.emit(signal, value) is called: the value is to be sent on every
\* channel registered under signal; exit is how the closure ends afterwards
StartEmit(h, st, signal, value, exit) ==
    /\ step' = SetStep(h, [st EXCEPT !.emits = Append(@, <<signal, value>>)])
    /\ emitLog' = [emitLog EXCEPT ![h] = Append(@, <<signal, value>>)]
    /\ pc' = [pc EXCEPT ![h] = "emit"]
    /\ loc' = [loc EXCEPT ![h].signal = signal,
                          ![h].value = value,
                          ![h].exit = exit,
                          ![h].pending = 1..Len(subs[signal])]
    /\ UNCHANGED <<panicked, calls>>

\* emit sends the value on one of the channels still to be served; the send
\* waits while that channel's buffer is full
EmitSend(h) ==
    /\ ~panicked
    /\ pc[h] = "emit"
    /\ \E i \in loc[h].pending :
        /\ CanSend(subs[loc[h].signal][i], ConnectSize)
        /\ subs' = [subs EXCEPT ![loc[h].signal][i] = Append(@, loc[h].value)]
        /\ loc' = [loc EXCEPT ![h].pending = @ \ {i}]
    /\ UNCHANGED <<data, workers, chanIn, closed, pc, panicked,
                   published, taken, step, emitLog,
                   calls, replaced>>

\* emit has served every channel and the closure runs to its end
EmitDone(h) ==
    /\ ~panicked
    /\ pc[h] = "emit"
    /\ loc[h].pending = {}
    /\ UNCHANGED <<data, replaced>>
    /\ Return(h, Cur(h), loc[h].exit)
    /\ UNCHANGED <<workers, chanIn, closed, subs, published, taken>>

----------------------------------------------------------------------------
(* What both handlers share *)

\* a variant that treats every worker as detached
DetachedAlways(worker) == TRUE

\* whether the worker found wants the content fetched or delivered over HTTP
Detached(worker) == worker.detachedContent

\* a variant that carries on after an API error status
AfterResponseLenient(resp) == IF resp.err THEN "transport" ELSE "ok"

\* how the closure goes on once the client has returned resp: it returns on
\* an error and on an API error status, and carries on otherwise
AfterResponse(resp) ==
    IF resp.err THEN "transport"
    ELSE IF IsAPIError(resp) THEN "api_error"
    ELSE "ok"

\* a variant that hands the request to the client again after a failure
OnFailureRetry(h, st, how) ==
    Goto(h, [st EXCEPT !.reqs = Append(@, loc[h].req)], "http",
         loc[h].dataMessage, loc[h].req)

\* the log call and the return that follow a failed request: the closure
\* ends and the handler goes on to the next value
OnFailure(h, st, how) == Return(h, st, how)

----------------------------------------------------------------------------
(* HandleDataRecvSignal *)

\* a variant that announces an unroutable message as ready
NoWorkerSignalReady == SignalDataProcess

\* the signal emitted for a message no worker is registered for
NoWorkerSignal == SignalDataConsume

\* a variant that announces a stored message as consumed
ReadySignalConsume == SignalDataConsume

\* the signal emitted once the message is stored
ReadySignal == SignalDataProcess

\* a variant that stores the body as it is logged, trimmed
FetchedTrimmed(dataMessage, body) == [dataMessage EXCEPT !.Content = TrimSpace(body)]

\* a variant that builds the stored record anew around the body
FetchedBare(dataMessage, body) ==
    Msg(dataMessage.MessageID, dataMessage.Directive, body, NoHeader, NoID)

\* dataMessage.Content = data
Fetched(dataMessage, body) == [dataMessage EXCEPT !.Content = body]

\* The handler takes the next value from its channel and runs the closure
\* up to the point where it returns, panics, calls the HTTP client, opens the
\* write transaction or emits.  fail names the lookup that returns an error
\* (0: none does).
RecvTake ==
    /\ ~panicked
    /\ pc["recv"] = "idle"
    /\ chanIn["recv"] # <<>>
    /\ chanIn' = [chanIn EXCEPT !["recv"] = ChanRecv(@).rest]
    /\ taken' = [taken EXCEPT !["recv"] = Append(@, ChanRecv(chanIn["recv"]).val)]
    /\ UNCHANGED <<data, replaced, workers, closed, subs, published>>
    /\ \E fail \in 0..2 :
        LET messageID == ChanRecv(chanIn["recv"]).val
            obj == First(data, messageID)
            wobj == First(workers, obj.Directive)
            url == Unmarshal(obj.Content)
            req == Request("GET", url.val, <<>>, NoHeader)
            st0 == NewStep(messageID)
            st1 == [st0 EXCEPT !.lookups = 1, !.before = obj]
            st2 == [st1 EXCEPT !.lookups = 2, !.detached = Detached(wobj)]
        IN
        IF fail = 1 THEN Return("recv", st0, "store_error")
        ELSE IF IsNil(obj) THEN Panic("recv", st0, "absent")
        ELSE IF fail = 2 THEN Return("recv", st1, "store_error")
        ELSE IF IsNil(wobj) THEN
            StartEmit("recv", st1, NoWorkerSignal, obj.MessageID, "noworker")
        ELSE IF ~Detached(wobj) THEN
            Goto("recv", st2, "write", obj, NoReq)
        ELSE IF ~url.ok THEN Return("recv", st2, "malformed")
        ELSE Goto("recv", [st2 EXCEPT !.reqs = <<req>>], "http", obj, req)

\* p.client.Get and ioutil.ReadAll return.
RecvHttp ==
    /\ ~panicked
    /\ pc["recv"] = "http"
    /\ UNCHANGED <<data, replaced, workers, chanIn, closed, subs, published, taken>>
    /\ \E resp \in Responses(loc["recv"].req) :
        LET st == [Cur("recv") EXCEPT !.resp = resp]
            how == AfterResponse(resp)
        IN
        IF how # "ok" THEN OnFailure("recv", st, how)
        ELSE Goto("recv", st, "write",
                  Fetched(loc["recv"].dataMessage, resp.body), loc["recv"].req)

\* a variant that announces the message although the write was aborted
WriteFailedAnnounce(st, dataMessage) ==
    StartEmit("recv", st, ReadySignal, dataMessage.MessageID, "write_error")

\* tx.Insert returns an error: tx.Abort() and return
WriteFailed(st, dataMessage) == Return("recv", st, "write_error")

\* The write transaction: Insert, then Abort on an error, or Commit and the
\* call of emit.
RecvWrite ==
    /\ ~panicked
    /\ pc["recv"] = "write"
    /\ UNCHANGED <<workers, chanIn, closed, subs, published, taken>>
    /\ \E ok \in BOOLEAN :
        LET dataMessage == loc["recv"].dataMessage IN
        IF ~ok THEN
            /\ UNCHANGED <<data, replaced>>
            /\ WriteFailed(Cur("recv"), dataMessage)
        ELSE
            /\ data' = Insert(data, dataMessage)
            /\ replaced' =
                 IF \/ IsNil(First(data, dataMessage.MessageID))
                    \/ First(data, dataMessage.MessageID).Content # dataMessage.Content
                 THEN [replaced EXCEPT ![dataMessage.MessageID] = @ + 1]
                 ELSE replaced
            /\ StartEmit("recv", [Cur("recv") EXCEPT !.wrote = TRUE],
                         ReadySignal, dataMessage.MessageID, "ok")

----------------------------------------------------------------------------
(* HandleDataReturnSignal *)

\* a variant that retires a reply whose original has no worker, the way the
\* receive path retires an unroutable message
RetNoWorkerRetire(st, id) == StartEmit("ret", st, SignalDataConsume, id, "noworker")

\* worker := obj.(Worker) with obj nil: the type assertion panics
RetNoWorker(st, id) == Panic("ret", st, "absent")

\* a variant that looks the worker up under the reply's own Directive
WorkerKeyReply(dataMessage, originalMessage) == dataMessage.Directive

\* the key of the worker lookup: the Directive of the original message
WorkerKey(dataMessage, originalMessage) == originalMessage.Directive

\* a variant that retires the original message in place of the reply
RetiredValueOriginal(dataMessage) == dataMessage.ResponseTo

\* the value emitted on the return path
RetiredValue(dataMessage) == dataMessage.MessageID

\* The handler takes the next value from its channel and runs the closure
\* up to the point where it returns, panics, calls the HTTP client or emits.
RetTake ==
    /\ ~panicked
    /\ pc["ret"] = "idle"
    /\ chanIn["ret"] # <<>>
    /\ chanIn' = [chanIn EXCEPT !["ret"] = ChanRecv(@).rest]
    /\ taken' = [taken EXCEPT !["ret"] = Append(@, ChanRecv(chanIn["ret"]).val)]
    /\ UNCHANGED <<data, replaced, workers, closed, subs, published>>
    /\ \E fail \in 0..3 :
        LET messageID == ChanRecv(chanIn["ret"]).val
            obj == First(data, messageID)
            orig == First(data, obj.ResponseTo)
            wobj == First(workers, WorkerKey(obj, orig))
            req == Request("POST", obj.Directive, obj.Content,
                           BuildHeader(obj.Metadata))
            st0 == NewStep(messageID)
            st1 == [st0 EXCEPT !.lookups = 1, !.before = obj]
            st2 == [st1 EXCEPT !.lookups = 2]
            st3 == [st2 EXCEPT !.lookups = 3, !.detached = Detached(wobj)]
        IN
        IF fail = 1 THEN Return("ret", st0, "store_error")
        ELSE IF IsNil(obj) THEN Panic("ret", st0, "absent")
        ELSE IF fail = 2 THEN Return("ret", st1, "store_error")
        ELSE IF IsNil(orig) THEN Panic("ret", st1, "absent")
        ELSE IF fail = 3 THEN Return("ret", st2, "store_error")
        ELSE IF IsNil(wobj) THEN RetNoWorker(st2, obj.MessageID)
        ELSE IF ~Detached(wobj) THEN
            StartEmit("ret", st3, SignalDataConsume, RetiredValue(obj), "ok")
        ELSE IF NewRequestFails(obj.Directive) THEN
            Panic("ret", st3, "bad_request")
        ELSE Goto("ret", [st3 EXCEPT !.reqs = <<req>>], "http", obj, req)

\* p.client.Do and ioutil.ReadAll return.
RetHttp ==
    /\ ~panicked
    /\ pc["ret"] = "http"
    /\ UNCHANGED <<data, replaced, workers, chanIn, closed, subs, published, taken>>
    /\ \E resp \in Responses(loc["ret"].req) :
        LET st == [Cur("ret") EXCEPT !.resp = resp]
            how == AfterResponse(resp)
        IN
        IF how # "ok" THEN OnFailure("ret", st, how)
        ELSE StartEmit("ret", st, SignalDataConsume,
                       RetiredValue(loc["ret"].dataMessage), "ok")

----------------------------------------------------------------------------

\* The dispatcher with a signal table nobody has connected to: the outside
\* publishers and the two handlers.
Next ==
    \/ \E h \in Handlers : \E id \in Inputs(h) : Publish(h, id)
    \/ RecvTake
    \/ RecvHttp
    \/ RecvWrite
    \/ RetTake
    \/ RetHttp
    \/ \E h \in Handlers : EmitDone(h)

Spec == Init /\ [][Next]_vars

\* The dispatcher together with the subscribers of its signals and the
\* owners of its input channels.
NextBus ==
    \/ Next
    \/ \E name \in Signals : Connect(name)
    \/ \E name \in Signals : \E i \in 1..MaxSubs : SubTake(name, i)
    \/ \E h \in Handlers : EmitSend(h)
    \/ \E h \in Handlers : Close(h)
    \/ \E h \in Handlers : Exit(h)

SpecBus == Init /\ [][NextBus]_vars

\* The dispatcher together with the subscribers of its signals, fed with
\* MessageIDs whose processing can reach emit.
NextSub ==
    \/ \E h \in Handlers : \E id \in EmittingInputs(h) : Publish(h, id)
    \/ RecvTake
    \/ RecvHttp
    \/ RecvWrite
    \/ RetTake
    \/ RetHttp
    \/ \E h \in Handlers : EmitDone(h)
    \/ \E name \in Signals : Connect(name)
    \/ \E name \in Signals : \E i \in 1..MaxSubs : SubTake(name, i)
    \/ \E h \in Handlers : EmitSend(h)

SpecSub == Init /\ [][NextSub]_vars

\* The dispatcher with plain workers only and with subscribers, fed with
\* one value more, so that a handler can be held up in emit while a value
\* waits in its input channel.
PlainInputs(h) == IF h = "recv" THEN {"m1"} ELSE {"r1"}
PublishPlain(h, id) == PublishUpTo(h, id, MaxPublish + 1)

NextPressure ==
    \/ \E h \in Handlers : \E id \in PlainInputs(h) : PublishPlain(h, id)
    \/ RecvTake
    \/ RecvWrite
    \/ RetTake
    \/ \E h \in Handlers : EmitDone(h)
    \/ \E name \in Signals : Connect(name)
    \/ \E name \in Signals : \E i \in 1..MaxSubs : SubTake(name, i)
    \/ \E h \in Handlers : EmitSend(h)

SpecPressure == Init /\ [][NextPressure]_vars

\* Another user of the same database commits a change to the record under
\* id: it marks the record in its Metadata.
Marked == [k \in {<<"x">>} |-> <<"n">>]
ExtUpdate(id) ==
    /\ ~panicked
    /\ id \in DOMAIN data
    /\ data[id].Metadata # Marked
    /\ data' = Insert(data, [data[id] EXCEPT !.Metadata = Marked])
    /\ UNCHANGED <<workers, chanIn, closed, subs, pc, loc, panicked,
                   published, taken, step, emitLog, calls, replaced>>

\* Another user of the same database removes the record under id.
ExtDelete(id) ==
    /\ ~panicked
    /\ id \in DOMAIN data
    /\ data' = [k \in DOMAIN data \ {id} |-> data[k]]
    /\ UNCHANGED <<workers, chanIn, closed, subs, pc, loc, panicked,
                   published, taken, step, emitLog, calls, replaced>>

\* The receive handler next to another writer of the Message table.
SharedInputs == {"m1", "m2"}

NextShared ==
    \/ \E id \in SharedInputs : Publish("recv", id)
    \/ RecvTake
    \/ RecvHttp
    \/ RecvWrite
    \/ EmitDone("recv")
    \/ \E id \in SharedInputs : ExtUpdate(id)
    \/ \E id \in SharedInputs : ExtDelete(id)

SpecShared == Init /\ [][NextShared]_vars

----------------------------------------------------------------------------
(* Type correctness of the history *)

TypeOK ==
    /\ panicked \in BOOLEAN
    /\ \A h \in Handlers :
        /\ pc[h] \in {"idle", "http", "write", "emit", "exited", "dead"}
        /\ Len(chanIn[h]) <= InCap
        /\ step[h].exit \in Exits
    /\ \A s \in Signals : \A i \in 1..Len(subs[s]) : Len(subs[s][i]) <= ConnectBuf


----------------------------------------------------------------------------
(* Properties *)

RECURSIVE IsSubseq(_, _)
\* a is b with some elements left out
IsSubseq(a, b) ==
    IF a = <<>> THEN TRUE
    ELSE IF b = <<>> THEN FALSE
    ELSE IF Head(a) = Head(b) THEN IsSubseq(Tail(a), Tail(b))
    ELSE IsSubseq(a, Tail(b))

IsPrefix(a, b) == Len(a) <= Len(b) /\ a = SubSeq(b, 1, Len(a))

\* the closure run recorded in st has ended
Ended(st) == st.exit \notin {"none", "running"}

\* the store itself reported an error to that run (a lookup or the Insert)
StoreFault(st) == st.exit \in {"store_error", "write_error"}

\* what the store holds for a MessageID published on the receive channel
HasRecord(id) == id \in DOMAIN data
RecvRouted(id) == HasRecord(id) /\ data[id].Directive \in DOMAIN workers
RecvDetached(id) == RecvRouted(id) /\ workers[data[id].Directive].detachedContent
RecvPlain(id) == RecvRouted(id) /\ ~workers[data[id].Directive].detachedContent

\* what the store holds for a MessageID published on the return channel
RetResolved(id) ==
    /\ HasRecord(id)
    /\ HasRecord(data[id].ResponseTo)
    /\ data[data[id].ResponseTo].Directive \in DOMAIN workers
RetDetached(id) ==
    RetResolved(id) /\ workers[data[data[id].ResponseTo].Directive].detachedContent
RetPlain(id) ==
    RetResolved(id) /\ ~workers[data[data[id].ResponseTo].Directive].detachedContent

\* the delivery attempt of the run recorded in st is over: the client was
\* called and has returned
Attempted(st) == st.reqs # <<>> /\ Ended(st)

Retired(st) == st.emits = <<<<SignalDataConsume, st.id>>>>
Ready(st) == st.emits = <<<<SignalDataProcess, st.id>>>>

\* C1 as stated: on the return path with a detached worker and three
\* successful lookups, the reply's MessageID is emitted on "data-consume"
\* once the delivery attempt is over, whether the request succeeded, failed
\* in transport or returned a status >= 400.
C1_RetiredAfterAnyAttempt ==
    LET st == step["ret"] IN
    (RetDetached(st.id) /\ st.lookups = 3 /\ Attempted(st)) => Retired(st)

\* C1 as the code has it: on the return path with a detached worker and
\* three successful lookups, the reply's MessageID is emitted on
\* "data-consume" exactly when the request returned without a transport
\* error and with a status below 400; after a transport error or a status
\* >= 400 nothing is emitted.
C1_RetiredOnlyAfterDelivery ==
    LET st == step["ret"] IN
    (RetDetached(st.id) /\ st.lookups = 3 /\ Attempted(st)) =>
        IF ~st.resp.err /\ st.resp.code < 400 THEN Retired(st) ELSE st.emits = <<>>

\* a reply to a detached worker's message whose POST returned status 400
\* and which was not retired
C1_Witness ==
    LET st == step["ret"] IN
    /\ RetDetached(st.id) /\ st.lookups = 3 /\ Attempted(st)
    /\ ~st.resp.err /\ st.resp.code = 400
    /\ st.emits = <<>>

\* C2 as stated: no failure while processing one message stops a handler;
\* after a message that failed, the handler is back at its channel, ready
\* to take the next value.
C2_FailureLeavesHandlerRunning ==
    \A h \in Handlers :
        (Ended(step[h]) /\ step[h].exit \notin {"ok", "noworker"}) =>
            (pc[h] = "idle" /\ ~panicked)

\* C3: on the receive path, for a stored record whose Directive matches no
\* registered Worker (and with no error from the store), the closure emits
\* exactly one value, the record's MessageID on "data-consume", nothing on
\* "data-process", makes no request and leaves the record as it was.
C3_NoWorkerRetires ==
    LET st == step["recv"] IN
    (HasRecord(st.id) /\ ~RecvRouted(st.id) /\ Ended(st) /\ ~StoreFault(st)) =>
        /\ st.emits = <<<<SignalDataConsume, data[st.id].MessageID>>>>
        /\ ~st.wrote
        /\ st.reqs = <<>>
        /\ st.after = st.before
        /\ st.after.Content = InitData[st.id].Content

\* a message without a worker has been processed to the end
C3_Witness ==
    LET st == step["recv"] IN
    /\ HasRecord(st.id) /\ ~RecvRouted(st.id) /\ Ended(st) /\ ~StoreFault(st)
    /\ st.emits # <<>>

\* C4: on the receive path with a detached worker, when the GET returns
\* status 200 (and the store reports no error), the stored record's Content
\* after processing is the response body, byte for byte, and the MessageID
\* is emitted on "data-process" exactly once, with nothing else emitted.
C4_FetchedContentStored ==
    LET st == step["recv"] IN
    (/\ RecvDetached(st.id) /\ Attempted(st) /\ ~StoreFault(st)
     /\ ~st.resp.err /\ st.resp.code = 200) =>
        /\ st.after.Content = st.resp.body
        /\ data[st.id].Content = st.resp.body
        /\ Ready(st)

\* a detached message whose GET returned 200 with a body that ends in a
\* blank, processed to the end
C4_Witness ==
    LET st == step["recv"] IN
    /\ RecvDetached(st.id) /\ Attempted(st) /\ ~StoreFault(st)
    /\ ~st.resp.err /\ st.resp.code = 200 /\ st.resp.body = <<"p", SP>>
    /\ st.exit = "ok"

\* C5: on the receive path with a detached worker, when the GET fails in
\* transport or returns a status >= 400, nothing is emitted on either
\* signal, nothing is written, and the stored record is the record read
\* before processing.
C5_FailedFetchChangesNothing ==
    LET st == step["recv"] IN
    (/\ RecvDetached(st.id) /\ st.reqs # <<>>
     /\ (st.resp.err \/ st.resp.code >= 400)) =>
        /\ st.emits = <<>>
        /\ ~st.wrote
        /\ Ended(st) => (st.after = st.before /\ data[st.id] = st.before)

\* a detached message whose GET returned status 400
C5_Witness ==
    LET st == step["recv"] IN
    /\ RecvDetached(st.id) /\ st.reqs # <<>> /\ Ended(st)
    /\ ~st.resp.err /\ st.resp.code = 400

\* C6: on the return path, when the reply's own record, its ResponseTo
\* target or the original's Worker is not resolved (the store returns an
\* error or no record), the closure goes no further: nothing is emitted on
\* "data-consume" (or on any signal) and no request is made.
C6_FailedLookupEmitsNothing ==
    LET st == step["ret"] IN
    (st.exit # "none" /\ (~RetResolved(st.id) \/ st.exit = "store_error")) =>
        /\ st.emits = <<>>
        /\ st.reqs = <<>>
        /\ Ended(st)

\* a reply whose ResponseTo names no record has been processed
C6_Witness ==
    LET st == step["ret"] IN
    /\ st.exit # "none" /\ HasRecord(st.id) /\ ~HasRecord(data[st.id].ResponseTo)
    /\ st.lookups = 1

\* C7: on the return path, when the original message's Worker has
\* detachedContent = false (and the store reports no error), exactly one
\* value is emitted, the reply's MessageID on "data-consume", and no HTTP
\* request is made.
C7_PlainReplyRetired ==
    LET st == step["ret"] IN
    (RetPlain(st.id) /\ st.exit # "none" /\ ~StoreFault(st)) =>
        /\ Retired(st)
        /\ st.emits = <<<<SignalDataConsume, data[st.id].MessageID>>>>
        /\ st.reqs = <<>>

\* a reply to a non-detached worker's message has been processed to the end
C7_Witness ==
    LET st == step["ret"] IN
    RetPlain(st.id) /\ st.exit = "ok" /\ st.lookups = 3

\* C8: each handler takes the values of its channel in the order they were
\* published, takes a value only when the closure for the previous one has
\* ended, and so emits its signals in the order of the inputs: the emitted
\* values are the taken values, in order, with those left out for which
\* nothing was emitted.
C8_FifoPerTopic ==
    \A h \in Handlers :
        /\ IsPrefix(taken[h], published[h])
        /\ IsSubseq([i \in 1..Len(emitLog[h]) |-> emitLog[h][i][2]], taken[h])
        /\ Len(emitLog[h]) <= Len(taken[h])
        /\ (pc[h] \in {"http", "write", "emit"}) <=> (step[h].exit = "running")
        /\ (step[h].exit # "none") => (step[h].id = taken[h][Len(taken[h])])

\* two different values were published on one channel and a signal has been
\* emitted for each
C8_Witness ==
    \E h \in Handlers :
        /\ Len(published[h]) = 2 /\ published[h][1] # published[h][2]
        /\ Len(emitLog[h]) = 2
        /\ emitLog[h][1][2] = published[h][1]
        /\ emitLog[h][2][2] = published[h][2]

\* C9: on the receive path, when the Directive matches a Worker with
\* detachedContent = false (and the store reports no error), the MessageID
\* is emitted on "data-process" exactly once, nothing else is emitted, no
\* HTTP request is made, and the stored Content is the Content before.
C9_PlainMessageReady ==
    LET st == step["recv"] IN
    (RecvPlain(st.id) /\ Ended(st) /\ ~StoreFault(st)) =>
        /\ Ready(st)
        /\ st.reqs = <<>>
        /\ st.after.Content = st.before.Content
        /\ data[st.id].Content = InitData[st.id].Content

\* a message for a non-detached worker has been processed to the end
C9_Witness ==
    LET st == step["recv"] IN
    RecvPlain(st.id) /\ st.exit = "ok" /\ st.wrote

\* C10 as stated: on the receive path, a MessageID that matches no record is
\* handled like a store failure: the closure reports it and returns, with
\* nothing emitted and nothing written, and the handler carries on.
C10_MissingRecordAbandoned ==
    LET st == step["recv"] IN
    (st.exit # "none" /\ ~HasRecord(st.id)) =>
        /\ st.exit = "store_error"
        /\ st.emits = <<>>
        /\ ~st.wrote
        /\ pc["recv"] = "idle"
        /\ ~panicked

----------------------------------------------------------------------------
(* The store under the two handlers *)

Buffered(name) ==
    UNION {{subs[name][i][j] : j \in 1..Len(subs[name][i])} :
              i \in 1..Len(subs[name])}

\* the store holds the resolved form of m: for a detached worker a fetched
\* body put there by a committed write-back, otherwise the record as it came
ResolvedInStore(m) ==
    /\ m \in DOMAIN data
    /\ IF RecvDetached(m)
       THEN data[m].Content \in Bodies /\ replaced[m] >= 1
       ELSE data[m].Content = InitData[m].Content

\* C12: data-process is emitted for m only after the write-back of m has
\* committed.  While the emit of a run is under way or done, its write has
\* committed and the store holds the record the run wrote, with the fetched
\* body as Content for a detached worker; a value a subscriber can take
\* from a data-process channel names a record whose resolved Content is in
\* the store; and a run whose write failed has emitted nothing and has left
\* the record as it was.
C12_ReadyAfterCommit ==
    /\ LET st == step["recv"] IN
        /\ Ready(st) =>
              /\ st.wrote
              /\ data[st.id] = loc["recv"].dataMessage
              /\ st.detached => data[st.id].Content = st.resp.body
        /\ st.exit = "write_error" =>
              /\ st.emits = <<>>
              /\ ~st.wrote
              /\ st.after = st.before
    /\ \A m \in Buffered(SignalDataProcess) : ResolvedInStore(m)

\* a subscriber can take the MessageID of a message of a detached worker,
\* and the store holds the fetched body
C12_Witness ==
    /\ "m2" \in Buffered(SignalDataProcess)
    /\ data["m2"].Content \in Bodies
    /\ pc["recv"] = "idle"

\* a write failed for a message of a detached worker after the fetch
C12_WitnessAbort ==
    /\ step["recv"].exit = "write_error"
    /\ step["recv"].detached

\* how often id occurs in the sequence q
Count(q, id) == Cardinality({i \in 1..Len(q) : q[i] = id})

----------------------------------------------------------------------------
(* Requests and signals per value *)

FailedRequest(st) == st.exit \in {"transport", "api_error"}

\* C14: the run for one value hands at most one request to the HTTP client,
\* a GET on the receive path and a POST on the return path, so a handler
\* has made no more requests than it has taken values; and a handler takes
\* only what was published on its channel, each publication once, so a
\* message whose run failed is processed again only if its MessageID is
\* published again.
C14_NoRetry ==
    \A h \in Handlers :
        /\ Len(step[h].reqs) <= 1
        /\ \A i \in 1..Len(step[h].reqs) :
              step[h].reqs[i].method = (IF h = "recv" THEN "GET" ELSE "POST")
        /\ calls[h] <= Len(taken[h])
        /\ IsPrefix(taken[h], published[h])
        /\ FailedRequest(step[h]) => pc[h] = "idle"

\* a request has failed, the handler is back at its channel, the channel is
\* empty, and the one request made is all there was
C14_Witness ==
    \E h \in Handlers :
        /\ FailedRequest(step[h])
        /\ pc[h] = "idle"
        /\ chanIn[h] = <<>>
        /\ calls[h] = 1
        /\ Len(taken[h]) = 1

\* content is a JSON string literal, white space around it allowed
IsJSONString(content) ==
    LET c == TrimSpace(content) IN
    /\ Len(c) >= 2
    /\ c[1] = Q
    /\ c[Len(c)] = Q
    /\ \A i \in 2..(Len(c) - 1) : c[i] # Q

\* C15: on the receive path, when the worker found is detached and the
\* Content read is not a JSON-encoded string, the run ends before any HTTP
\* request is made, emits nothing and leaves the stored record as it was.
C15_MalformedEnvelopeAborts ==
    LET st == step["recv"] IN
    (st.lookups = 2 /\ st.detached /\ ~IsJSONString(st.before.Content)) =>
        /\ st.reqs = <<>>
        /\ st.emits = <<>>
        /\ Ended(st) => st.after = st.before

\* C19: the run for one value emits at most one signal.  On the receive
\* path it is data-process or data-consume, never both; on the return path
\* it is data-consume, never data-process.  The value emitted is the
\* MessageID of the record the run looked up first, which is the value
\* taken.  So a handler has emitted no more often than it has taken values.
C19_OneSignalPerValue ==
    \A h \in Handlers :
        LET st == step[h] IN
        /\ Len(st.emits) <= 1
        /\ \A i \in 1..Len(st.emits) :
              /\ st.emits[i][1] \in (IF h = "recv" THEN Signals ELSE {SignalDataConsume})
              /\ st.emits[i][2] = st.before.MessageID
              /\ st.emits[i][2] = st.id
        /\ Len(emitLog[h]) <= Len(taken[h])
        /\ \A i \in 1..Len(emitLog[h]) :
              /\ h = "ret" => emitLog[h][i][1] = SignalDataConsume
              /\ emitLog[h][i][2] \in DOMAIN data

\* each handler has taken one value and emitted one signal for it
C19_Witness ==
    /\ taken = [h \in Handlers |-> <<step[h].id>>]
    /\ emitLog["recv"] = <<<<SignalDataProcess, step["recv"].before.MessageID>>>>
    /\ emitLog["ret"] = <<<<SignalDataConsume, step["ret"].before.MessageID>>>>
    /\ \A h \in Handlers : pc[h] = "idle"

----------------------------------------------------------------------------
(* Routing on the return path *)

\* header carries one field per entry of metadata and no other: the name in
\* the canonical form of HTTP header names, the value without the white
\* space around it
CarriesMetadata(header, metadata) ==
    /\ DOMAIN header = {CanonicalKey(k) : k \in DOMAIN metadata}
    /\ \A k \in DOMAIN metadata : TrimSpace(metadata[k]) \in header[CanonicalKey(k)]
    /\ \A ck \in DOMAIN header : \A v \in header[ck] :
          \E k \in DOMAIN metadata : CanonicalKey(k) = ck /\ TrimSpace(metadata[k]) = v

----------------------------------------------------------------------------
(* The end of a handler *)

\* the goroutine of handler h runs no more: it has left its loop, or a
\* panic has ended the process
Stopped(h) == pc[h] = "exited" \/ panicked

\* C17: a handler stops only once its input channel is closed and the
\* values that were in it have been processed: it never stops while the
\* channel is open or still holds a value.
C17_StopsOnlyAfterClose ==
    \A h \in Handlers : Stopped(h) => closed[h] /\ chanIn[h] = <<>>

\* the same for a handler that has left its loop by itself
LoopLeftOnlyAfterClose ==
    \A h \in Handlers : pc[h] = "exited" => closed[h] /\ chanIn[h] = <<>>

\* The handlers keep running, every HTTP call returns and every subscriber
\* takes what is in its channel.
Fairness ==
    /\ WF_vars(RecvTake) /\ WF_vars(RecvHttp) /\ WF_vars(RecvWrite)
    /\ WF_vars(RetTake) /\ WF_vars(RetHttp)
    /\ \A h \in Handlers :
          WF_vars(EmitSend(h)) /\ WF_vars(EmitDone(h)) /\ WF_vars(Exit(h))
    /\ \A name \in Signals : \A i \in 1..MaxSubs : WF_vars(SubTake(name, i))

SpecBusFair == SpecBus /\ Fairness

\* once its channel is closed a handler leaves its loop, unless a panic
\* ends the process first
ClosedLeadsToStop == \A h \in Handlers : closed[h] ~> Stopped(h)

----------------------------------------------------------------------------
(* Back-pressure of the signal channels *)

\* the subscriber channels the emit of handler h has yet to serve
Unserved(h) == {subs[loc[h].signal][i] : i \in loc[h].pending}

\* the emit of handler h waits for a subscriber: every channel it has yet
\* to serve is full
Blocked(h) ==
    /\ pc[h] = "emit"
    /\ loc[h].pending # {}
    /\ \A buf \in Unserved(h) : buf # <<>>

HandlerTake(h) == IF h = "recv" THEN RecvTake ELSE RetTake

\* C18: a channel handed out by Connect buffers one value.  An emit puts
\* its value into a subscriber channel that is empty without any receiver
\* acting; while every channel it has yet to serve holds a value not yet
\* taken, the emitting handler can do nothing (it can neither send, nor
\* end its emit, nor take a value from its input channel), and it can go on
\* once a subscriber has emptied a channel.  A handler inside emit takes no
\* value from its input channel.
C18_BackPressure ==
    /\ \A name \in Signals : \A i \in 1..Len(subs[name]) : Len(subs[name][i]) <= 1
    /\ \A h \in Handlers :
        /\ (pc[h] = "emit" /\ <<>> \in Unserved(h) /\ ~panicked) => ENABLED EmitSend(h)
        /\ Blocked(h) =>
              /\ ~ENABLED EmitSend(h)
              /\ ~ENABLED EmitDone(h)
              /\ \E i \in loc[h].pending : ENABLED SubTake(loc[h].signal, i)
        /\ pc[h] = "emit" => ~ENABLED HandlerTake(h)

\* a handler is blocked in emit on the full channel of a subscriber while a
\* value waits in its input channel
C18_Witness ==
    \E h \in Handlers :
        /\ Blocked(h)
        /\ chanIn[h] # <<>>
        /\ ~panicked

----------------------------------------------------------------------------
(* The write-back next to another writer *)

\* C20: the write-back of the receive path loses no committed update.  The
\* record its commit leaves in the store differs from the version that was
\* in the store just before the commit, whoever wrote that version, in
\* nothing but Content, and the commit brings back no record that was
\* removed.
C20_NoLostUpdate ==
    [][ (pc["recv"] = "write" /\ step'["recv"].wrote) =>
            LET id == step["recv"].id IN
            /\ DOMAIN data' = DOMAIN data
            /\ id \in DOMAIN data =>
                  data'[id] = [data[id] EXCEPT !.Content = data'[id].Content]
      ]_vars

=============================================================================
